---- MODULE Spec2Model ----
(***************************************************************************)
(* usb_manager: the device registry with its hotplug synchronisation       *)
(* (src/src/adapter.rs, src/src/manager.rs) and the HID report transport   *)
(* (src/src/hid_device.rs).                                                *)
(*                                                                         *)
(* Spec      the registry: Adapter::start followed by hotplug passes       *)
(*           (Adapter::usb_device_change) run by the notification thread.  *)
(* SpecHid   one HidDevice and the transport operations a caller invokes   *)
(*           on it, one after the other, against an arbitrary device.      *)
(* SpecLoop  write / read_continuous / close_device against a loopback     *)
(*           device, whose next input report is the last output report.    *)
(* SpecMgr   the Manager's registry called by its users: add_devices,      *)
(*           remove_device, peripheral.                                    *)
(* SpecBus   the event channel: emit, events(), recv on the handles.       *)
(* SpecConc  two threads inside the operations of one HidDevice.           *)
(* SpecHeld  the registry with a caller that keeps a descriptor from       *)
(*           peripheral() and reads from it.                               *)
(* SpecDrop  SpecHid with clones of the descriptor being dropped.          *)
(* SpecScan  one enumeration (all_hid_device) over what the OS answers.    *)
(* SpecSnap  devices() / device_keys() iterating the registry while the    *)
(*           hotplug pass inserts and removes entries.                     *)
(* SpecTopo  start and hotplug passes over a topology that changes and     *)
(*           whose devices may fail to answer.                             *)
(* SpecConv  SpecTopo's topology with the notification window: ticks are   *)
(*           delivered once the thread has subscribed; fair scheduling.    *)
(***************************************************************************)
EXTENDS Integers, Sequences, FiniteSets, TLC

\* ------------------------------------------------------------------ bounds
MaxScan == 2     \* devices one enumeration returns
MaxPasses == 2   \* hotplug ticks delivered after start()
MaxReportLen == 3   \* largest report byte length (HIDP_CAPS) of a device
MaxEvents == 3   \* events sent on the channel by direct calls of emit
MaxHandles == 2  \* receive handles obtained with events()
MaxOpen == 2     \* OS handles open at once before CreateFileW refuses
MaxChanges == 2  \* plug / unplug events before the topology stops changing

\* --------------------------------------------------------------- constants
ManagedPage == 65280   \* 0xff00

\* ---------------------------------------------------------------- universe
\* HidDevice, the fields the registry and the synchroniser read.  The device
\* interfaces that can be plugged in: container U1 exposes two vendor-page
\* collections and one generic-desktop collection, container U2 one of each
\* (all interfaces of one physical device share its container id).
HidDevices ==
    { [path |-> "a", id |-> "U1", usage_page |-> ManagedPage],
      [path |-> "b", id |-> "U1", usage_page |-> ManagedPage],
      [path |-> "c", id |-> "U1", usage_page |-> 1],
      [path |-> "d", id |-> "U2", usage_page |-> ManagedPage],
      [path |-> "e", id |-> "U2", usage_page |-> 1] }

Uuids == { d.id : d \in HidDevices }

\* What all_hid_device() can return: Err, or Ok(list) with one entry per
\* device interface found (an interface is listed once per enumeration).
ScanLists ==
    UNION { { s \in [1..n -> HidDevices] :
                \A i, j \in 1..n : i # j => s[i] # s[j] } :
            n \in 0..MaxScan }

all_hid_device == [ok : {FALSE}, list : {<< >>}] \cup [ok : {TRUE}, list : ScanLists]

\* What the OS answers for one device interface during an enumeration: the
\* interface, whether its container id can be read, whether
\* get_device_info (open, capabilities, attributes) succeeds.
Probes(devs) == [dev : devs, container : BOOLEAN, info : BOOLEAN]

\* the interfaces SetupDiEnumDeviceInterfaces yields, each with its answers
ProbeLists ==
    UNION { { s \in [1..n -> Probes(HidDevices)] :
                \A i, j \in 1..n : i # j => s[i].dev # s[j].dev } :
            n \in 0..MaxScan }

\* all_hid_device, the loop over the device interfaces: a container id that
\* cannot be read returns the error (`?`), a failed get_device_info skips
\* the interface (continue), any other interface is pushed on the list.
RECURSIVE enumerate_from(_, _)
enumerate_from(list, items) ==
    IF items = << >> THEN [ok |-> TRUE, list |-> list]
    ELSE IF ~Head(items).container THEN [ok |-> FALSE, list |-> << >>]
    ELSE IF ~Head(items).info THEN enumerate_from(list, Tail(items))
    ELSE enumerate_from(Append(list, Head(items).dev), Tail(items))

enumerate(items) == enumerate_from(<< >>, items)

\* CentralEvent
DeviceAdd(id) == [type |-> "DeviceAdd", id |-> id]
DeviceRemove(dev) == [type |-> "DeviceRemove", device |-> dev]

VARIABLES
    dev,            \* the HidDevice under test: its three report byte lengths
    device_handle,  \* HidDevice.device_handle: [handle, opened]
    os_handles,     \* the OS handles CreateFileW returned and nobody closed yet
    loopback,       \* the device echoes each output report as its next input report
    pending,        \* loopback device: the report it will send next (with the
                    \* call that caused it), << >> when none
    ret,            \* history: the last transport call, its arguments and result
    devices,        \* Manager.devices : DashMap<Uuid, HidDevice>
    channel,        \* the unbounded crossbeam channel: every event sent, in order
    thread_handle,  \* Adapter.thread_handle is Some: the notification thread runs
    ticks,          \* hotplug ticks handled so far
    seeded,         \* history: ids inserted by the seed scan of start()
    last,           \* history: the last call (start or hotplug pass)
    last_op,        \* history: per id, the last registry call made on it
    taken,          \* the channel: how many of its events were received
    received,       \* per receive handle returned by events(): what it received
    threads,        \* per thread calling into one HidDevice: where it is
    race,           \* history: a request on a closed handle, a second CloseHandle
    held,           \* the descriptor a caller got from peripheral() and keeps
    plugged,        \* the OS topology: the HID device interfaces present
    pnp,            \* the notification window: created, WM_DEVICECHANGE queued
    iter            \* a devices() / device_keys() call walking the map

regvars == << devices, channel, thread_handle, ticks, seeded, last >>
hidvars == << dev, device_handle, os_handles, loopback, pending, ret >>
usevars == << last_op, taken, received, threads, race, held >>
envvars == << plugged, pnp, iter >>
vars == << regvars, hidvars, usevars, envvars >>

\* ------------------------------------------------------------- manager.rs
EmptyMap == [k \in {} |-> 0]

\* faulty variant: the insert is skipped when the key is present.
add_devices_if_absent(map, key, device) ==
    [k \in (DOMAIN map) \cup {key} |-> IF k \in DOMAIN map THEN map[k] ELSE device]

add_devices(map, key, device) ==
    [k \in (DOMAIN map) \cup {key} |-> IF k = key THEN device ELSE map[k]]

contains_device(map, key) == key \in DOMAIN map

\* faulty variant: the entry is returned and stays in the map.
remove_device_keep(map, key) ==
    IF key \in DOMAIN map
    THEN [map |-> map, ret |-> << << key, map[key] >> >>]
    ELSE [map |-> map, ret |-> << >>]

\* Option<(Uuid, HidDevice)>: << >> is None, << <<k, v>> >> is Some((k, v)).
remove_device(map, key) ==
    IF key \in DOMAIN map
    THEN [map |-> [k \in (DOMAIN map) \ {key} |-> map[k]],
          ret |-> << << key, map[key] >> >>]
    ELSE [map |-> map, ret |-> << >>]

\* DashMap iteration order is unspecified: every ordering of the keys.
device_keys(map) ==
    { s \in [1..Cardinality(DOMAIN map) -> DOMAIN map] :
        \A i, j \in DOMAIN s : i # j => s[i] # s[j] }

\* faulty variant: the event goes to the front of the queue.
emit_front(chan, event) == << event >> \o chan

\* Manager::emit: sender.send(event); the Manager keeps a Receiver, so the
\* channel is never disconnected and send does not fail.
emit(chan, event) == Append(chan, event)

\* Manager::event_channel: receiver.clone(), one more handle on the same
\* queue; a handle is modelled by what was received through it.
event_channel(handles, chan) ==
    Append(handles, [since |-> Len(chan), got |-> << >>])

\* Receiver::recv on any handle: the oldest event not yet received by
\* anyone, << >> when there is none (recv blocks, try_recv returns Empty).
recv(chan, n) == IF n < Len(chan) THEN << chan[n + 1] >> ELSE << >>

\* Manager::device: Option<HidDevice>, a clone of the stored value.
device(map, key) == IF key \in DOMAIN map THEN << map[key] >> ELSE << >>

\* ------------------------------------------------------------- adapter.rs
\* start(), the body of the seeding loop for one item.
seed_skip(item) == item.usage_page # ManagedPage

RECURSIVE seed_loop(_, _)
seed_loop(map, items) ==
    IF items = << >> THEN map
    ELSE IF seed_skip(Head(items))
         THEN seed_loop(map, Tail(items))
         ELSE seed_loop(add_devices(map, Head(items).id, Head(items)), Tail(items))

\* faulty variants of the filter: without the usage-page test, without the
\* registry lookup.
is_added_any_page(map, u) == ~contains_device(map, u.id)

is_added_no_lookup(map, u) == u.usage_page = ManagedPage

\* usb_device_change(), the filter that computes added_devices.
is_added(map, u) == ~contains_device(map, u.id) /\ u.usage_page = ManagedPage

added_devices(map, current_device) ==
    SelectSeq(current_device, LAMBDA u : is_added(map, u))

\* faulty variant of the loop body: inserts without announcing.
add_step_silent(st, item) ==
    [map |-> add_devices(st.map, item.id, item), chan |-> st.chan]

\* the body of the loop over added_devices: insert, then emit DeviceAdd.
add_step(st, item) ==
    [map |-> add_devices(st.map, item.id, item),
     chan |-> emit(st.chan, DeviceAdd(item.id))]

RECURSIVE add_loop(_, _)
add_loop(st, items) ==
    IF items = << >> THEN st
    ELSE add_loop(add_step(st, Head(items)), Tail(items))

new_key(current_device) == [i \in DOMAIN current_device |-> current_device[i].id]

seq_contains(s, x) == \E i \in DOMAIN s : s[i] = x

removed_keys(current_keys, nk) ==
    SelectSeq(current_keys, LAMBDA u : ~seq_contains(nk, u))

\* faulty variant: announces the key instead of the removed descriptor.
remove_event_add(key, val) == DeviceAdd(key)

\* what the Some arm of the removal loop sends.
remove_event(key, val) == DeviceRemove(val)

\* the loop over removed_keys: remove, emit DeviceRemove(val) on Some.
RECURSIVE remove_loop(_, _)
remove_loop(st, keys) ==
    IF keys = << >> THEN st
    ELSE LET r == remove_device(st.map, Head(keys))
         IN  IF r.ret # << >>
             THEN remove_loop([map |-> r.map,
                               chan |-> emit(st.chan,
                                             remove_event(r.ret[1][1], r.ret[1][2]))],
                              Tail(keys))
             ELSE remove_loop([map |-> r.map, chan |-> st.chan], Tail(keys))

\* usb_device_change() after a successful enumeration: the states it can end
\* in, one for each order in which device_keys() may iterate the map.
usb_device_change(st, current_device) ==
    LET a == add_loop(st, added_devices(st.map, current_device))
    IN  { remove_loop(a, removed_keys(keys, new_key(current_device))) :
            keys \in device_keys(a.map) }

\* faulty variant: an absent id yields the default descriptor.
peripheral_or_default(map, id) ==
    IF device(map, id) # << >>
    THEN [ok |-> TRUE, val |-> device(map, id), err |-> "none"]
    ELSE [ok |-> TRUE, val |-> << [path |-> "", id |-> id, usage_page |-> 0] >>,
          err |-> "none"]

\* Adapter::peripheral: manager.device(id).ok_or(Error::NotFound)
peripheral(map, id) ==
    IF device(map, id) # << >>
    THEN [ok |-> TRUE, val |-> device(map, id), err |-> "none"]
    ELSE [ok |-> FALSE, val |-> << >>, err |-> "NotFound"]

\* ----------------------------------------------------------- hid_device.rs
Bytes == {0, 1}

\* usize on x86_64-pc-windows: 64 bits, held as four 16-bit limbs, least
\* significant first (the checker's integers end at 2^31 - 1).
Limb == 2^16

USize(n) == << n % Limb, n \div Limb, 0, 0 >>

U32MaxAsUSize == << Limb - 1, Limb - 1, 0, 0 >>            \* 0xFFFF_FFFF

USizeMax == << Limb - 1, Limb - 1, Limb - 1, Limb - 1 >>   \* usize::MAX

\* x + 1 on usize and whether it overflowed (the value then wraps to 0).
usize_add1(x) ==
    IF x[1] < Limb - 1 THEN [val |-> << x[1] + 1, x[2], x[3], x[4] >>, overflow |-> FALSE]
    ELSE IF x[2] < Limb - 1 THEN [val |-> << 0, x[2] + 1, x[3], x[4] >>, overflow |-> FALSE]
    ELSE IF x[3] < Limb - 1 THEN [val |-> << 0, 0, x[3] + 1, x[4] >>, overflow |-> FALSE]
    ELSE IF x[4] < Limb - 1 THEN [val |-> << 0, 0, 0, x[4] + 1 >>, overflow |-> FALSE]
    ELSE [val |-> << 0, 0, 0, 0 >>, overflow |-> TRUE]

\* `x as u32`: the low 32 bits.
as_u32(x) == << x[1], x[2] >>

\* a report byte length: HIDP_CAPS holds a u16, stored `as u32`.
u32(n) == << n % Limb, n \div Limb >>

u32_gt(a, b) == a[2] > b[2] \/ (a[2] = b[2] /\ a[1] > b[1])

\* usize x < n, for a small n
usize_lt(x, n) == x[4] = 0 /\ x[3] = 0 /\ x[2] = 0 /\ x[1] < n

\* `(len + 1) as u32 > cap`, the test that opens every operation: "over",
\* "fits", or "panic" when len + 1 overflows usize in a build with overflow
\* checks (a release build wraps).
over_length(len, cap, overflow_checks) ==
    LET s == usize_add1(len)
    IN  IF s.overflow /\ overflow_checks THEN "panic"
        ELSE IF u32_gt(as_u32(s.val), u32(cap)) THEN "over"
        ELSE "fits"

Zeros(n) == [i \in 1..n |-> 0]

\* A byte slice or Vec<u8> that may be longer than a model sequence can be:
\* its length and its first bytes (all of them when it is short; the model
\* never reads past MaxReportLen + 1).
Slice(s) == [len |-> USize(Len(s)), head |-> s]

ByteSeqs(n) == UNION { [1..k -> Bytes] : k \in 0..n }

\* the payloads a caller passes: every byte string up to MaxReportLen bytes
\* and vec![1; 0xFFFF_FFFF]
Payloads ==
    { Slice(s) : s \in ByteSeqs(MaxReportLen) }
        \cup { [len |-> U32MaxAsUSize, head |-> [i \in 1..MaxReportLen |-> 1]] }

\* the lengths a caller asks for
DataLens == { USize(n) : n \in 0..MaxReportLen } \cup { U32MaxAsUSize, USizeMax }

\* output_assemble_data: reverse, push(report_id), reverse puts report_id in
\* front; zero padding up to data_len when shorter.
output_assemble_data(report_id, data, data_len) ==
    LET send_data == [len |-> usize_add1(data.len).val,
                      head |-> << report_id >> \o data.head]
    IN  IF usize_lt(send_data.len, data_len)
        THEN Slice(send_data.head \o Zeros(data_len - send_data.len[1]))
        ELSE send_data

\* input_assemble_data: vec![0; data_len] with [0] = report_id; << >> stands
\* for the index-out-of-bounds panic on an empty Vec.
input_assemble_data(report_id, data_len) ==
    IF data_len = 0 THEN << >>
    ELSE << << report_id >> \o Zeros(data_len - 1) >>

\* faulty variant: the leading byte is never dropped.
strip_report_id_never(send_data, report_id, data_len) ==
    IF usize_lt(data_len, Len(send_data))
    THEN SubSeq(send_data, 1, data_len[1]) ELSE send_data

\* the tail of the read operations: drop byte 0 when it equals report_id,
\* then Vec::truncate(data_len).
strip_report_id(send_data, report_id, data_len) ==
    LET v == IF send_data[1] = report_id THEN Tail(send_data) ELSE send_data
    IN  IF usize_lt(data_len, Len(v)) THEN SubSeq(v, 1, data_len[1]) ELSE v

\* DeviceHandle
Closed == [handle |-> << >>, opened |-> FALSE]

FreshHandle(os) == CHOOSE h \in 1..(Cardinality(os) + 1) : h \notin os

\* open_device: CreateFileW fails, or returns a handle that is stored.
open_device(dh, os) ==
    { [ok |-> FALSE, dh |-> dh, os |-> os],
      [ok |-> TRUE,
       dh |-> [handle |-> << FreshHandle(os) >>, opened |-> TRUE],
       os |-> os \cup {FreshHandle(os)}] }

\* close_device: CloseHandle on the stored handle, then handle = None.
close_device(dh, os) ==
    [dh |-> Closed,
     os |-> IF dh.handle # << >> THEN os \ {dh.handle[1]} ELSE os]

\* Drop for HidDevice, run for every clone that goes out of scope:
\* CloseHandle on the stored handle; the handle field is left as it is.
drop(dh, os) ==
    [dh |-> dh,
     os |-> IF dh.handle # << >> THEN os \ {dh.handle[1]} ELSE os]

\* check_handle: the stored handle, or open_device() when there is none.
check_handle(dh, os) ==
    IF dh.handle # << >> THEN { [ok |-> TRUE, dh |-> dh, os |-> os] }
    ELSE open_device(dh, os)

\* The first n bytes at the buffer's address, what the OS request is given.
Transmit(send_data, n) ==
    [len |-> send_data.len, bytes |-> SubSeq(send_data.head, 1, n)]

\* What a successful input request can leave in a buffer of n bytes.
InputReports(n) == [1..n -> Bytes]

\* ReadFile: the reports a successful read of n bytes can deliver.  A
\* loopback device delivers the pending report and nothing else.
ReadFileReports(n) ==
    IF loopback
    THEN { pending[i].bytes : i \in DOMAIN pending }
    ELSE InputReports(n)

NoRet ==
    [op |-> "none", report_id |-> 0, len |-> USize(0), data |-> << >>,
     outcome |-> "none", bytes |-> << >>, count |-> 0, transferred |-> 0,
     sent |-> << >>, resp |-> << >>, echo_of |-> << >>,
     had |-> << >>, flushed |-> TRUE]

\* The state a call leaves: the handle, the OS handle table, the loopback
\* device's pending report, and the call's record.
Leave(h, pend, r) == [dh |-> h.dh, os |-> h.os, pending |-> pend, ret |-> r]

Here == [dh |-> device_handle, os |-> os_handles]

\* A call that returned before its OS request, and one that reached it with
\* the handle state c, the call record r and the buffer send_data.
Returned(x) ==
    [go |-> FALSE, c |-> [ok |-> FALSE, dh |-> x.dh, os |-> x.os],
     r |-> x.ret, send_data |-> << >>, leave |-> x]

Reached(c, r, send_data) ==
    [go |-> TRUE, c |-> c, r |-> r, send_data |-> send_data,
     leave |-> Leave(c, pending, r)]

\* set_output_report and write up to the OS request: the length test,
\* check_handle, output_assemble_data.
output_call(op, report_id, data) ==
    LET cap == dev.output_report_byte_length
        r == [NoRet EXCEPT !.op = op, !.report_id = report_id,
                           !.len = data.len, !.data = data.head]
    IN  IF over_length(data.len, cap, FALSE) = "over"
        THEN { Returned(Leave(Here, pending, [r EXCEPT !.outcome = "DataOverlength"])) }
        ELSE { IF ~c.ok
               THEN Returned(Leave(c, pending, [r EXCEPT !.outcome = "OpenError"]))
               ELSE Reached(c, r, output_assemble_data(report_id, data, cap))
               : c \in check_handle(device_handle, os_handles) }

\* what the device holds after an output report reached it
Delivered(report_id, data, sent) ==
    IF loopback
    THEN << [bytes |-> sent.bytes, report_id |-> report_id, data |-> data] >>
    ELSE pending

set_output_report(report_id, data) ==
    LET cap == dev.output_report_byte_length
        request(c, r, send_data) ==
            { Leave(c, pending, [r EXCEPT !.outcome = "Win32"]),
              Leave(close_device(c.dh, c.os),
                    Delivered(report_id, data, Transmit(send_data, cap)),
                    [r EXCEPT !.outcome = "Ok",
                              !.sent = << Transmit(send_data, cap) >>]) }
    IN  UNION { IF p.go THEN request(p.c, p.r, p.send_data) ELSE { p.leave }
                : p \in output_call("set_output_report", report_id, data) }

\* faulty variant: the byte count is returned unchecked.
write_result_unchecked(write_len) == [outcome |-> "Ok", count |-> write_len]

\* write after a successful WriteFile: `write_len <= 0` is "write error",
\* otherwise Ok(write_len).
write_result(write_len) ==
    IF write_len <= 0 THEN [outcome |-> "write error", count |-> 0]
    ELSE [outcome |-> "Ok", count |-> write_len]

write(report_id, data) ==
    LET cap == dev.output_report_byte_length
        request(c, r, send_data) ==
            { Leave(c, pending, [r EXCEPT !.outcome = "Win32"]) }
            \cup
            { Leave(close_device(c.dh, c.os),
                    IF write_len = cap /\ cap > 0
                    THEN Delivered(report_id, data, Transmit(send_data, cap))
                    ELSE pending,
                    [r EXCEPT !.outcome = write_result(write_len).outcome,
                              !.count = write_result(write_len).count,
                              !.transferred = write_len,
                              !.sent = << Transmit(send_data, cap) >>])
              : write_len \in 0..cap }
    IN  UNION { IF p.go THEN request(p.c, p.r, p.send_data) ELSE { p.leave }
                : p \in output_call("write", report_id, data) }

\* get_input_report, get_feature_report and read_continuous up to the OS
\* request: the length test, check_handle, input_assemble_data.
input_call(op, report_id, data_len, cap) ==
    LET r == [NoRet EXCEPT !.op = op, !.report_id = report_id, !.len = data_len]
    IN  UNION {
          LET t == over_length(data_len, cap, overflow_checks)
          IN  IF t = "panic"
              THEN { Returned(Leave(Here, pending, [r EXCEPT !.outcome = "Panic"])) }
              ELSE IF t = "over"
              THEN { Returned(Leave(Here, pending, [r EXCEPT !.outcome = "DataOverlength"])) }
              ELSE { IF ~c.ok
                     THEN Returned(Leave(c, pending, [r EXCEPT !.outcome = "OpenError"]))
                     ELSE IF input_assemble_data(report_id, cap) = << >>
                     THEN Returned(Leave(c, pending, [r EXCEPT !.outcome = "Panic"]))
                     ELSE Reached(c, r, input_assemble_data(report_id, cap)[1])
                     : c \in check_handle(device_handle, os_handles) }
          : overflow_checks \in BOOLEAN }

\* HidD_GetInputReport / HidD_GetFeature, close_device, strip.
get_report(op, report_id, data_len, cap) ==
    LET request(c, r, send_data) ==
            { Leave(c, pending, [r EXCEPT !.outcome = "Win32"]) }
            \cup
            { Leave(close_device(c.dh, c.os), pending,
                    [r EXCEPT !.outcome = "Ok", !.resp = got,
                              !.bytes = strip_report_id(got, report_id, data_len)])
              : got \in InputReports(cap) }
    IN  UNION { IF p.go THEN request(p.c, p.r, p.send_data) ELSE { p.leave }
                : p \in input_call(op, report_id, data_len, cap) }

get_input_report(report_id, data_len) ==
    get_report("get_input_report", report_id, data_len, dev.input_report_byte_length)

get_feature_report(report_id, data_len) ==
    get_report("get_feature_report", report_id, data_len, dev.feature_report_byte_length)

\* faulty variant: the handle is closed after a successful ReadFile.
read_continuous_closing(report_id, data_len) ==
    LET cap == dev.input_report_byte_length
        request(c, r, send_data) ==
            { Leave(c, pending, [r EXCEPT !.outcome = "Win32"]),
              Leave(c, pending, [r EXCEPT !.outcome = "read error"]) }
            \cup
            { Leave(close_device(c.dh, c.os), IF loopback THEN << >> ELSE pending,
                    [r EXCEPT !.outcome = "Ok", !.resp = got,
                              !.echo_of = IF loopback THEN pending ELSE << >>,
                              !.bytes = strip_report_id(got, report_id, data_len)])
              : got \in ReadFileReports(cap) }
    IN  UNION { IF p.go THEN request(p.c, p.r, p.send_data) ELSE { p.leave }
                : p \in input_call("read_continuous", report_id, data_len, cap) }

\* ReadFile, the read_len test, strip; the handle stays open.
read_continuous(report_id, data_len) ==
    LET cap == dev.input_report_byte_length
        request(c, r, send_data) ==
            { Leave(c, pending, [r EXCEPT !.outcome = "Win32"]),
              Leave(c, pending, [r EXCEPT !.outcome = "read error"]) }
            \cup
            { Leave(c, IF loopback THEN << >> ELSE pending,
                    [r EXCEPT !.outcome = "Ok", !.resp = got,
                              !.echo_of = IF loopback THEN pending ELSE << >>,
                              !.bytes = strip_report_id(got, report_id, data_len)])
              : got \in ReadFileReports(cap) }
    IN  UNION { IF p.go THEN request(p.c, p.r, p.send_data) ELSE { p.leave }
                : p \in input_call("read_continuous", report_id, data_len, cap) }

\* read: read_continuous()?, then close_device.
read(report_id, data_len) ==
    { IF x.ret.outcome = "Ok"
      THEN Leave(close_device(x.dh, x.os), x.pending, [x.ret EXCEPT !.op = "read"])
      ELSE [x EXCEPT !.ret.op = "read"]
      : x \in read_continuous(report_id, data_len) }

\* faulty variant: a failed HidD_FlushQueue is returned as an error.
read_flush_strict ==
    UNION { IF ~c.ok
            THEN { Leave(c, pending, [NoRet EXCEPT !.op = "read_flush",
                                                   !.outcome = "OpenError"]) }
            ELSE { Leave(c, pending, [NoRet EXCEPT !.op = "read_flush",
                                                   !.outcome = IF ok THEN "Ok" ELSE "Win32",
                                                   !.flushed = ok])
                   : ok \in BOOLEAN }
            : c \in check_handle(device_handle, os_handles) }

\* read_flush: check_handle()?, HidD_FlushQueue (a failure is printed), Ok.
read_flush ==
    UNION { IF ~c.ok
            THEN { Leave(c, pending, [NoRet EXCEPT !.op = "read_flush",
                                                   !.outcome = "OpenError"]) }
            ELSE { Leave(c, pending, [NoRet EXCEPT !.op = "read_flush",
                                                   !.outcome = "Ok",
                                                   !.flushed = ok])
                   : ok \in BOOLEAN }
            : c \in check_handle(device_handle, os_handles) }

\* -------------------------------------------------------------- actions
\* Adapter::new: an empty registry, an empty channel, no thread.
InitRegistry ==
    /\ devices = EmptyMap
    /\ channel = << >>
    /\ thread_handle = FALSE
    /\ ticks = 0
    /\ seeded = {}
    /\ last = [op |-> "new", ok |-> TRUE, scan |-> << >>, before |-> EmptyMap,
               sent |-> 0, repeat |-> FALSE, prev |-> [op |-> "none", ok |-> TRUE]]

\* Nobody uses the adapter or a descriptor yet.
Threads == {"t1", "t2"}

Idle == [pc |-> "idle", handle |-> << >>, stale |-> FALSE]

InitUse ==
    /\ last_op = [k \in Uuids |-> "none"]
    /\ taken = 0
    /\ received = << >>
    /\ threads = [t \in Threads |-> Idle]
    /\ race = [stale_request |-> FALSE, double_close |-> FALSE,
               overwritten |-> FALSE]
    /\ held = << >>
    /\ plugged = {}
    /\ pnp = [subscribed |-> FALSE, notify |-> FALSE, changes |-> 0]
    /\ iter = [active |-> FALSE, todo |-> {}, seen |-> {}, instants |-> {}]

\* the report byte lengths get_usage_info stored, for the devices under
\* test: each length takes every value of 0..MaxReportLen, and the three
\* lengths of one device differ.
ReportLengths ==
    { [input_report_byte_length |-> n,
       output_report_byte_length |-> (n + 1) % (MaxReportLen + 1),
       feature_report_byte_length |-> (n + 2) % (MaxReportLen + 1)] :
      n \in 0..MaxReportLen }

\* A HidDevice as all_hid_device() returns it: lengths retrieved, handle
\* closed again by get_device_info.
InitDevice(lengths, echo) ==
    /\ dev \in lengths
    /\ device_handle = Closed
    /\ os_handles = {}
    /\ loopback = echo
    /\ pending = << >>
    /\ ret = NoRet

Init ==
    /\ InitRegistry
    /\ InitUse
    /\ InitDevice({[input_report_byte_length |-> 0, output_report_byte_length |-> 0,
                    feature_report_byte_length |-> 0]}, FALSE)

\* the call before this one, for the record of this one
Prev == [op |-> last.op, ok |-> last.ok]

\* faulty variant: the thread is spawned before the seeding enumeration.
Start_spawn_first ==
    /\ ~thread_handle
    /\ thread_handle' = TRUE
    /\ \E r \in all_hid_device :
         /\ devices' = IF r.ok THEN seed_loop(devices, r.list) ELSE devices
         /\ seeded' = seeded \cup (DOMAIN devices')
         /\ last' = [op |-> "start", ok |-> r.ok, scan |-> r.list,
                     before |-> devices, sent |-> Len(channel),
                     repeat |-> FALSE, prev |-> Prev]
    /\ UNCHANGED << channel, ticks >>
    /\ UNCHANGED << hidvars, usevars, envvars >>

\* Adapter::start: seed the registry, then spawn the notification thread.
Start ==
    /\ ~thread_handle
    /\ \E r \in all_hid_device :
         IF r.ok
         THEN /\ devices' = seed_loop(devices, r.list)
              /\ thread_handle' = TRUE
              /\ seeded' = seeded \cup (DOMAIN devices')
              /\ last' = [op |-> "start", ok |-> TRUE, scan |-> r.list,
                          before |-> devices, sent |-> Len(channel),
                          repeat |-> FALSE, prev |-> Prev]
              /\ UNCHANGED << channel, ticks >>
         ELSE /\ last' = [op |-> "start", ok |-> FALSE, scan |-> << >>,
                          before |-> devices, sent |-> Len(channel),
                          repeat |-> FALSE, prev |-> Prev]
              /\ UNCHANGED << devices, channel, thread_handle, ticks, seeded >>
    /\ UNCHANGED << hidvars, usevars, envvars >>

\* faulty variant: an enumeration error ends the notification thread.
UsbDeviceChange_unwrap ==
    /\ thread_handle
    /\ ticks < MaxPasses
    /\ ticks' = ticks + 1
    /\ \E r \in all_hid_device :
         IF r.ok
         THEN \E st \in usb_device_change([map |-> devices, chan |-> channel],
                                           r.list) :
                /\ devices' = st.map
                /\ channel' = st.chan
                /\ thread_handle' = thread_handle
                /\ last' = [op |-> "change", ok |-> TRUE, scan |-> r.list,
                            before |-> devices, sent |-> Len(channel),
                            repeat |-> (last.op # "new" /\ last.ok
                                        /\ last.scan = r.list),
                            prev |-> Prev]
         ELSE /\ last' = [op |-> "change", ok |-> FALSE, scan |-> << >>,
                          before |-> devices, sent |-> Len(channel),
                          repeat |-> FALSE, prev |-> Prev]
              /\ thread_handle' = FALSE
              /\ UNCHANGED << devices, channel >>
    /\ UNCHANGED seeded
    /\ UNCHANGED << hidvars, usevars, envvars >>

\* One hotplug tick: the notification thread runs usb_device_change; the
\* closure prints an error and returns, the thread waits for the next tick.
UsbDeviceChange ==
    /\ thread_handle
    /\ ticks < MaxPasses
    /\ ticks' = ticks + 1
    /\ \E r \in all_hid_device :
         IF r.ok
         THEN \E st \in usb_device_change([map |-> devices, chan |-> channel],
                                           r.list) :
                /\ devices' = st.map
                /\ channel' = st.chan
                /\ last' = [op |-> "change", ok |-> TRUE, scan |-> r.list,
                            before |-> devices, sent |-> Len(channel),
                            repeat |-> (last.op # "new" /\ last.ok
                                        /\ last.scan = r.list),
                            prev |-> Prev]
         ELSE /\ last' = [op |-> "change", ok |-> FALSE, scan |-> << >>,
                          before |-> devices, sent |-> Len(channel),
                          repeat |-> FALSE, prev |-> Prev]
              /\ UNCHANGED << devices, channel >>
    /\ UNCHANGED << thread_handle, seeded >>
    /\ UNCHANGED << hidvars, usevars, envvars >>

Next == Start \/ UsbDeviceChange

Spec == Init /\ [][Next]_vars

\* ------------------------------------------------- transport: the calls
Call(x) ==
    /\ device_handle' = x.dh
    /\ os_handles' = x.os
    /\ pending' = x.pending
    /\ ret' = [x.ret EXCEPT !.had = device_handle.handle]
    /\ UNCHANGED << dev, loopback, regvars, usevars, envvars >>

SetOutputReport ==
    \E report_id \in Bytes, data \in Payloads :
        \E x \in set_output_report(report_id, data) : Call(x)

GetInputReport ==
    \E report_id \in Bytes, data_len \in DataLens :
        \E x \in get_input_report(report_id, data_len) : Call(x)

GetFeatureReport ==
    \E report_id \in Bytes, data_len \in DataLens :
        \E x \in get_feature_report(report_id, data_len) : Call(x)

Write ==
    \E report_id \in Bytes, data \in Payloads :
        \E x \in write(report_id, data) : Call(x)

Read ==
    \E report_id \in Bytes, data_len \in DataLens :
        \E x \in read(report_id, data_len) : Call(x)

ReadFlush == \E x \in read_flush : Call(x)

ReadContinuous ==
    \E report_id \in Bytes, data_len \in DataLens :
        \E x \in read_continuous(report_id, data_len) : Call(x)

CloseDevice ==
    Call(Leave(close_device(device_handle, os_handles), pending,
               [NoRet EXCEPT !.op = "close_device", !.outcome = "Ok"]))

InitHid == InitRegistry /\ InitUse /\ InitDevice(ReportLengths, FALSE)

NextHid ==
    \/ SetOutputReport
    \/ GetInputReport
    \/ GetFeatureReport
    \/ Write
    \/ Read
    \/ ReadFlush
    \/ ReadContinuous
    \/ CloseDevice

SpecHid == InitHid /\ [][NextHid]_vars

\* a loopback device: input and output reports have one length
LoopLengths ==
    { [input_report_byte_length |-> n, output_report_byte_length |-> n,
       feature_report_byte_length |-> 0] : n \in 0..MaxReportLen }

InitLoop == InitRegistry /\ InitUse /\ InitDevice(LoopLengths, TRUE)

NextLoop == Write \/ ReadContinuous \/ CloseDevice

SpecLoop == InitLoop /\ [][NextLoop]_vars

\* ------------------------------------- the registry: calls by its users
\* Callers on any number of threads call into the Manager; each call is one
\* DashMap call (insert, remove, get), which DashMap makes atomic, so the
\* concurrent calls happen in some order, one at a time.
AddDevices ==
    \E key \in Uuids, d \in HidDevices :
        /\ devices' = add_devices(devices, key, d)
        /\ last' = [op |-> "add_devices", key |-> key, device |-> << d >>,
                    ok |-> TRUE, ret |-> << >>, err |-> "none",
                    before |-> devices, prev_op |-> last_op[key]]
        /\ last_op' = [last_op EXCEPT ![key] = "insert"]
        /\ UNCHANGED << channel, thread_handle, ticks, seeded >>
        /\ UNCHANGED << hidvars, taken, received, threads, race, held, envvars >>

RemoveDevice ==
    \E key \in Uuids :
        LET r == remove_device(devices, key)
        IN  /\ devices' = r.map
            /\ last' = [op |-> "remove_device", key |-> key, device |-> << >>,
                        ok |-> TRUE, ret |-> r.ret, err |-> "none",
                        before |-> devices, prev_op |-> last_op[key]]
            /\ last_op' = [last_op EXCEPT ![key] = "remove"]
            /\ UNCHANGED << channel, thread_handle, ticks, seeded >>
            /\ UNCHANGED << hidvars, taken, received, threads, race, held, envvars >>

Peripheral ==
    \E id \in Uuids :
        LET r == peripheral(devices, id)
        IN  /\ last' = [op |-> "peripheral", key |-> id, device |-> << >>,
                        ok |-> r.ok, ret |-> r.val, err |-> r.err,
                        before |-> devices, prev_op |-> last_op[id]]
            /\ UNCHANGED << devices, channel, thread_handle, ticks, seeded >>
            /\ UNCHANGED << hidvars, usevars, envvars >>

NextMgr == AddDevices \/ RemoveDevice \/ Peripheral

SpecMgr == Init /\ [][NextMgr]_vars

\* ------------------------------------------ the event bus and its readers
BusEvents ==
    { DeviceAdd(k) : k \in Uuids }
        \cup { DeviceRemove(d) : d \in { x \in HidDevices : x.path = "a" } }

InitBus ==
    /\ devices = EmptyMap
    /\ channel = << >>
    /\ thread_handle = FALSE
    /\ ticks = 0
    /\ seeded = {}
    /\ last = [op |-> "new", emitted |-> << >>]
    /\ InitUse
    /\ InitDevice({[input_report_byte_length |-> 0, output_report_byte_length |-> 0,
                    feature_report_byte_length |-> 0]}, FALSE)

\* Manager::emit
Emit ==
    /\ Len(channel) < MaxEvents
    /\ \E e \in BusEvents :
         /\ channel' = emit(channel, e)
         /\ last' = [op |-> "emit", emitted |-> Append(last.emitted, e)]
    /\ UNCHANGED << devices, thread_handle, ticks, seeded >>
    /\ UNCHANGED << hidvars, usevars, envvars >>

\* Adapter::events
Events ==
    /\ Len(received) < MaxHandles
    /\ received' = event_channel(received, channel)
    /\ UNCHANGED << regvars, hidvars, last_op, taken, threads, race, held, envvars >>

\* a consumer calls recv on its handle
Recv ==
    \E h \in DOMAIN received :
        /\ recv(channel, taken) # << >>
        /\ taken' = taken + 1
        /\ received' = [received EXCEPT ![h].got =
                           Append(@, [idx |-> taken + 1,
                                      event |-> recv(channel, taken)[1]])]
        /\ UNCHANGED << regvars, hidvars, last_op, threads, race, held, envvars >>

NextBus == Emit \/ Events \/ Recv

SpecBus == InitBus /\ [][NextBus]_vars

\* ------------------------------ one HidDevice called from several threads
\* The methods take &self and the clones of a HidDevice share one
\* DeviceHandle, so threads can be inside the methods at the same time.  An
\* operation is check_handle (which may open_device), its OS request on the
\* HANDLE it copied, and close_device; a step is what happens around one
\* acquisition of the RwLock.
Move(t, th) == [threads EXCEPT ![t] = th]

\* after CloseHandle(h): the threads that copied h and will pass it to the OS
invalidate(ths, h) ==
    [u \in Threads |->
        IF ths[u].pc = "request" /\ ths[u].handle = << h >>
        THEN [ths[u] EXCEPT !.stale = TRUE] ELSE ths[u]]

\* check_handle: copy the stored handle under the read lock
CheckHandle ==
    \E t \in Threads :
        /\ threads[t].pc = "idle"
        /\ threads' =
             IF device_handle.handle # << >>
             THEN Move(t, [pc |-> "request", handle |-> device_handle.handle,
                           stale |-> FALSE])
             ELSE Move(t, [Idle EXCEPT !.pc = "open_device"])
        /\ UNCHANGED << device_handle, os_handles, race >>
        /\ UNCHANGED << dev, loopback, pending, ret, regvars >>
        /\ UNCHANGED << last_op, taken, received, held, envvars >>

\* open_device: CreateFileW, store the handle under the write lock
OpenDevice ==
    \E t \in Threads :
        /\ threads[t].pc = "open_device"
        /\ \E c \in open_device(device_handle, os_handles) :
             /\ c.ok => Cardinality(os_handles) < MaxOpen
             /\ device_handle' = c.dh
             /\ os_handles' = c.os
             /\ threads' =
                  IF c.ok
                  THEN Move(t, [pc |-> "request", handle |-> c.dh.handle,
                                stale |-> FALSE])
                  ELSE Move(t, Idle)
             /\ race' = [race EXCEPT !.overwritten =
                             @ \/ (/\ c.ok
                                   /\ device_handle.handle # << >>
                                   /\ device_handle.handle[1] \in os_handles)]
        /\ UNCHANGED << dev, loopback, pending, ret, regvars >>
        /\ UNCHANGED << last_op, taken, received, held, envvars >>

\* the OS request on the copied HANDLE: it fails and the operation returns,
\* or it succeeds and the operation goes on to close_device
Request ==
    \E t \in Threads :
        /\ threads[t].pc = "request"
        /\ race' = [race EXCEPT !.stale_request = @ \/ threads[t].stale]
        /\ \E ok \in BOOLEAN :
             threads' = IF ok THEN Move(t, [Idle EXCEPT !.pc = "close_device"])
                        ELSE Move(t, Idle)
        /\ UNCHANGED << device_handle, os_handles >>
        /\ UNCHANGED << dev, loopback, pending, ret, regvars >>
        /\ UNCHANGED << last_op, taken, received, held, envvars >>

\* close_device, called by an operation or directly: CloseHandle on the
\* stored handle under the read lock
CloseHandle ==
    \E t \in Threads :
        /\ threads[t].pc \in {"idle", "close_device"}
        /\ IF device_handle.handle # << >>
           THEN LET h == device_handle.handle[1]
                IN  /\ os_handles' = os_handles \ {h}
                    /\ race' = [race EXCEPT !.double_close =
                                    @ \/ h \notin os_handles]
                    /\ threads' = [invalidate(threads, h) EXCEPT
                                      ![t] = [Idle EXCEPT !.pc = "clear_handle"]]
           ELSE /\ threads' = Move(t, [Idle EXCEPT !.pc = "clear_handle"])
                /\ UNCHANGED << os_handles, race >>
        /\ UNCHANGED device_handle
        /\ UNCHANGED << dev, loopback, pending, ret, regvars >>
        /\ UNCHANGED << last_op, taken, received, held, envvars >>

\* close_device: handle = None, opened = false under the write lock
ClearHandle ==
    \E t \in Threads :
        /\ threads[t].pc = "clear_handle"
        /\ device_handle' = Closed
        /\ threads' = Move(t, Idle)
        /\ UNCHANGED << os_handles, race >>
        /\ UNCHANGED << dev, loopback, pending, ret, regvars >>
        /\ UNCHANGED << last_op, taken, received, held, envvars >>

NextConc == CheckHandle \/ OpenDevice \/ Request \/ CloseHandle \/ ClearHandle

SpecConc == Init /\ [][NextConc]_vars

\* ------------------------- a caller keeps a descriptor of the registry
\* The descriptor peripheral() returns is a clone of the stored one and
\* shares its DeviceHandle (an Arc), as does the clone usb_device_change
\* sends in DeviceRemove: device_handle is the handle of all three.
HeldLengths == { l \in ReportLengths : l.input_report_byte_length = 1 }

InitHeld == InitRegistry /\ InitUse /\ InitDevice(HeldLengths, FALSE)

\* the descriptor the caller keeps is the one the registry stores or stored
\* last: no DeviceRemove of it was sent since the caller got it
HeldLive ==
    /\ held # << >>
    /\ \A i \in (held[1].at + 1)..Len(channel) :
         channel[i] # DeviceRemove(held[1].device)

\* Adapter::peripheral, the caller keeps the descriptor
HoldPeripheral ==
    /\ held = << >>
    /\ \E id \in Uuids :
         /\ peripheral(devices, id).ok
         /\ held' = << [device |-> peripheral(devices, id).val[1],
                        at |-> Len(channel)] >>
    /\ UNCHANGED << regvars, hidvars >>
    /\ UNCHANGED << last_op, taken, received, threads, race, envvars >>

\* read_continuous on the kept descriptor, while its device is registered
HeldReadContinuous ==
    /\ HeldLive
    /\ \E x \in read_continuous(0, USize(0)) : Call(x)

NextHeld == Start \/ UsbDeviceChange \/ HoldPeripheral \/ HeldReadContinuous

SpecHeld == InitHeld /\ [][NextHeld]_vars

\* ------------------------------------ clones of a descriptor are dropped
\* a clone of the HidDevice (an element of the Vec peripherals() returned,
\* the value peripheral() returned) goes out of scope
DropClone ==
    Call(Leave(drop(device_handle, os_handles), pending,
               [NoRet EXCEPT !.op = "drop", !.outcome = "Ok"]))

NextDrop == NextHid \/ DropClone

SpecDrop == InitHid /\ [][NextDrop]_vars

\* ------------------------------------------------------ one enumeration
\* all_hid_device called on what the OS answers
AllHidDevice ==
    /\ \E items \in ProbeLists :
         last' = [op |-> "all_hid_device", items |-> items,
                  result |-> enumerate(items)]
    /\ UNCHANGED << devices, channel, thread_handle, ticks, seeded >>
    /\ UNCHANGED << hidvars, usevars, envvars >>

NextScan == AllHidDevice

SpecScan == Init /\ [][NextScan]_vars

\* ------------------------------------ registry iteration under mutation
\* DashMap keeps its entries in shards, each behind its own lock; iter()
\* visits the shards in order and holds one shard's lock at a time.
Shards == << "s1", "s2" >>

\* the shard each key hashes to (the hasher is seeded per process)
ShardOf == [Uuids -> { Shards[i] : i \in DOMAIN Shards }]

InitSnap ==
    /\ InitRegistry
    /\ InitUse
    /\ InitDevice({[input_report_byte_length |-> 0, output_report_byte_length |-> 0,
                    feature_report_byte_length |-> 0]}, FALSE)

\* what an insert or a remove of the pass leaves of a running iteration:
\* the key set it produces is one more instant of the call.
observe(map) ==
    IF iter.active
    THEN [iter EXCEPT !.instants = @ \cup {DOMAIN map}]
    ELSE iter

\* Manager::devices / device_keys: self.devices.iter() starts
IterBegin ==
    /\ ~iter.active
    /\ \E op \in {"devices", "device_keys"}, sh \in ShardOf :
         iter' = [active |-> TRUE, op |-> op, shard_of |-> sh, todo |-> Shards,
                  seen |-> {}, instants |-> {DOMAIN devices}]
    /\ UNCHANGED << regvars, hidvars, usevars, plugged, pnp >>

\* the iterator locks the next shard and yields its entries
IterShard ==
    /\ iter.active
    /\ iter.todo # << >>
    /\ iter' = [iter EXCEPT
                  !.seen = @ \cup { k \in DOMAIN devices :
                                     iter.shard_of[k] = Head(iter.todo) },
                  !.todo = Tail(@)]
    /\ UNCHANGED << regvars, hidvars, usevars, plugged, pnp >>

\* .collect(): the call returns what the iterator yielded
IterEnd ==
    /\ iter.active
    /\ iter.todo = << >>
    /\ last' = [op |-> iter.op, ok |-> TRUE, result |-> iter.seen,
                instants |-> iter.instants]
    /\ iter' = [active |-> FALSE, todo |-> {}, seen |-> {}, instants |-> {}]
    /\ UNCHANGED << devices, channel, thread_handle, ticks, seeded >>
    /\ UNCHANGED << hidvars, usevars, plugged, pnp >>

\* the pass on the notification thread inserts one added device
PassInsert ==
    /\ \E u \in { d \in HidDevices : is_added(devices, d) } :
         /\ devices' = add_devices(devices, u.id, u)
         /\ iter' = observe(devices')
    /\ UNCHANGED << channel, thread_handle, ticks, seeded, last >>
    /\ UNCHANGED << hidvars, usevars, plugged, pnp >>

\* the pass on the notification thread removes one entry
PassRemove ==
    /\ \E k \in DOMAIN devices :
         /\ devices' = remove_device(devices, k).map
         /\ iter' = observe(devices')
    /\ UNCHANGED << channel, thread_handle, ticks, seeded, last >>
    /\ UNCHANGED << hidvars, usevars, plugged, pnp >>

NextSnap == IterBegin \/ IterShard \/ IterEnd \/ PassInsert \/ PassRemove

SpecSnap == InitSnap /\ [][NextSnap]_vars

\* --------------------------------------------- passes over a topology
\* the enumerations of a topology: its interfaces in any order, each
\* answering or failing
Scans(topology) ==
    { s \in ProbeLists :
        /\ Len(s) = Cardinality(topology)
        /\ { s[i].dev : i \in DOMAIN s } = topology }

\* the enumerations in which every interface answers
GoodScans(topology) ==
    { s \in Scans(topology) : \A i \in DOMAIN s : s[i].container /\ s[i].info }

\* the ids of the devices plugged in
PluggedIds(topology) == { d.id : d \in topology }

\* a device is plugged in
Plug ==
    /\ Cardinality(plugged) < MaxScan
    /\ \E d \in HidDevices \ plugged : plugged' = plugged \cup {d}
    /\ UNCHANGED << regvars, hidvars, usevars, pnp, iter >>

\* a device is unplugged
Unplug ==
    /\ \E d \in plugged : plugged' = plugged \ {d}
    /\ UNCHANGED << regvars, hidvars, usevars, pnp, iter >>

\* Adapter::start over the topology
TopoStart ==
    /\ ~thread_handle
    /\ \E items \in Scans(plugged) :
         LET r == enumerate(items)
         IN  /\ last' = [op |-> "start", ok |-> r.ok, items |-> items,
                         plugged |-> plugged, before |-> devices,
                         sent |-> Len(channel)]
             /\ IF r.ok
                THEN /\ devices' = seed_loop(devices, r.list)
                     /\ thread_handle' = TRUE
                     /\ seeded' = seeded \cup (DOMAIN devices')
                ELSE UNCHANGED << devices, thread_handle, seeded >>
    /\ UNCHANGED << channel, ticks >>
    /\ UNCHANGED << hidvars, usevars, envvars >>

\* Adapter::usb_device_change over the topology
TopoPass ==
    /\ thread_handle
    /\ ticks < MaxPasses
    /\ ticks' = ticks + 1
    /\ \E items \in Scans(plugged) :
         LET r == enumerate(items)
         IN  /\ last' = [op |-> "change", ok |-> r.ok, items |-> items,
                         plugged |-> plugged, before |-> devices,
                         sent |-> Len(channel)]
             /\ IF r.ok
                THEN \E st \in usb_device_change(
                                  [map |-> devices, chan |-> channel], r.list) :
                       /\ devices' = st.map
                       /\ channel' = st.chan
                ELSE UNCHANGED << devices, channel >>
    /\ UNCHANGED << thread_handle, seeded >>
    /\ UNCHANGED << hidvars, usevars, envvars >>

NextTopo == Plug \/ Unplug \/ TopoStart \/ TopoPass

SpecTopo == Init /\ [][NextTopo]_vars

\* ------------------------------------------------ notification and passes
\* the topology changes; the window, once it exists, is told
Change ==
    /\ pnp.changes < MaxChanges
    /\ \/ /\ Cardinality(plugged) < MaxScan
          /\ \E d \in HidDevices \ plugged : plugged' = plugged \cup {d}
       \/ \E d \in plugged : plugged' = plugged \ {d}
    /\ pnp' = [pnp EXCEPT !.changes = @ + 1, !.notify = @ \/ pnp.subscribed]
    /\ UNCHANGED << regvars, hidvars, usevars, iter >>

\* Adapter::start: the seed enumeration, then the thread is spawned
ConvStart ==
    /\ ~thread_handle
    /\ \E items \in GoodScans(plugged) :
         /\ devices' = seed_loop(devices, enumerate(items).list)
         /\ last' = [op |-> "start", ok |-> TRUE, items |-> items]
    /\ thread_handle' = TRUE
    /\ seeded' = seeded \cup (DOMAIN devices')
    /\ UNCHANGED << channel, ticks >>
    /\ UNCHANGED << hidvars, usevars, envvars >>

\* the spawned thread: PnPDetectWindows::new creates the window and
\* registers it for device notifications
Subscribe ==
    /\ thread_handle
    /\ ~pnp.subscribed
    /\ pnp' = [pnp EXCEPT !.subscribed = TRUE]
    /\ UNCHANGED << regvars, hidvars, usevars, plugged, iter >>

\* detect / window_proc: WM_DEVICECHANGE runs the callback, one pass
ConvPass ==
    /\ pnp.subscribed
    /\ pnp.notify
    /\ pnp' = [pnp EXCEPT !.notify = FALSE]
    /\ \E items \in GoodScans(plugged) :
         /\ \E st \in usb_device_change([map |-> devices, chan |-> channel],
                                        enumerate(items).list) :
              /\ devices' = st.map
              /\ channel' = st.chan
         /\ last' = [op |-> "change", ok |-> TRUE, items |-> items]
    /\ UNCHANGED << thread_handle, ticks, seeded >>
    /\ UNCHANGED << hidvars, usevars, plugged, iter >>

NextConv == Change \/ ConvStart \/ Subscribe \/ ConvPass

\* start is called, the spawned thread runs, every delivered tick's pass
\* runs to completion
SpecConv ==
    /\ Init
    /\ [][NextConv]_vars
    /\ WF_vars(ConvStart)
    /\ WF_vars(Subscribe)
    /\ WF_vars(ConvPass)

\* ---------------------------------------------------------------- claims
ManagedIds(list) ==
    { list[i].id : i \in { j \in DOMAIN list : list[j].usage_page = ManagedPage } }

\* the events the last call sent
Emitted == SubSeq(channel, last.sent + 1, Len(channel))

\* C1: every descriptor stored in the registry has usage_page = 0xff00, after
\* any sequence of seed scans and hotplug passes.
C1_OnlyManagedPage ==
    \A k \in DOMAIN devices : devices[k].usage_page = ManagedPage /\ devices[k].id = k

\* a scan that listed a device of another page next to a newly inserted one
C1_Witness ==
    /\ last.ok
    /\ devices # last.before
    /\ \E i \in DOMAIN last.scan :
         /\ last.scan[i].usage_page # ManagedPage
         /\ last.scan[i].id \notin DOMAIN devices

\* C2: after a hotplug pass the registry's key set is exactly the set of ids
\* of the managed-page devices of that pass's scan.
C2_KeysAreManagedScanIds ==
    (last.op = "change" /\ last.ok) => DOMAIN devices = ManagedIds(last.scan)

\* C3: in the event stream two DeviceAdd(id) are always separated by a
\* DeviceRemove of that id.
C3_NoDoubleAdd ==
    \A i, j \in DOMAIN channel :
        (i < j /\ channel[i].type = "DeviceAdd" /\ channel[j] = channel[i]) =>
            \E k \in (i + 1)..(j - 1) :
                /\ channel[k].type = "DeviceRemove"
                /\ channel[k].device.id = channel[i].id

\* C4: a pass over the same device list as the pass before it emits no event
\* and leaves the registry (keys and stored descriptors) unchanged.
C4_SecondPassIdle ==
    (last.op = "change" /\ last.ok /\ last.repeat) =>
        (Emitted = << >> /\ devices = last.before)

\* a second hotplug pass over the list of the first, which lists two devices
\* of one registered id and had made the first pass send events
C4_Witness ==
    /\ last.op = "change" /\ last.ok /\ last.repeat
    /\ ticks = 2
    /\ channel # << >>
    /\ devices # EmptyMap
    /\ Len(last.scan) = 2
    /\ last.scan[1].id = last.scan[2].id

\* C5: the events of one hotplug pass are one DeviceAdd(id) per managed-page
\* device that was not registered before the pass, in scan order, then one
\* DeviceRemove(d) per key the pass removed, d being the descriptor that was
\* stored under the key, and nothing else.
C5_EventsMatchMutations ==
    last.op = "change" =>
        LET added == SelectSeq(last.scan,
                               LAMBDA u : u.usage_page = ManagedPage
                                          /\ u.id \notin DOMAIN last.before)
            removed == ((DOMAIN last.before) \cup ManagedIds(last.scan))
                           \ DOMAIN devices
            tail == SubSeq(Emitted, Len(added) + 1, Len(Emitted))
        IN  /\ Len(Emitted) = Len(added) + Cardinality(removed)
            /\ \A i \in DOMAIN added : Emitted[i] = DeviceAdd(added[i].id)
            /\ removed \subseteq DOMAIN last.before
            /\ \A k \in removed :
                 \E i \in DOMAIN tail : tail[i] = DeviceRemove(last.before[k])
            /\ \A k \in (DOMAIN devices) \ ManagedIds(last.scan) :
                 k \in DOMAIN last.before /\ devices[k] = last.before[k]

\* the scenario: {D1 managed U1, D2 other page U2} from an empty registry,
\* then {D2}: the registry is empty again and the stream is
\* [DeviceAdd(U1), DeviceRemove(D1)]
C5_Witness ==
    LET D1 == [path |-> "a", id |-> "U1", usage_page |-> ManagedPage]
        D2 == [path |-> "e", id |-> "U2", usage_page |-> 1]
    IN  /\ last.op = "change" /\ last.ok
        /\ last.scan = << D2 >>
        /\ last.before = [k \in {"U1"} |-> D1]
        /\ devices = EmptyMap
        /\ channel = << DeviceAdd("U1"), DeviceRemove(D1) >>

\* C6 as stated: every id that is a registry key was announced by a
\* DeviceAdd(id) event.
C6_EveryKeyAnnounced ==
    \A k \in DOMAIN devices : \E i \in DOMAIN channel : channel[i] = DeviceAdd(k)

\* C6 amended: start() sends no event; every registry key was inserted by the
\* seed scan or announced by a DeviceAdd(id) event of a hotplug pass.
C6_SeededOrAnnounced ==
    /\ last.op = "start" => (Emitted = << >> /\ channel = << >>)
    /\ (last.op = "start" /\ last.ok) =>
          DOMAIN devices = ManagedIds(last.scan)
    /\ \A k \in DOMAIN devices :
          k \in seeded \/ \E i \in DOMAIN channel : channel[i] = DeviceAdd(k)

\* a registry holding one seeded key and one key a hotplug pass announced
C6_Witness ==
    /\ \E k \in DOMAIN devices :
         k \in seeded /\ \A i \in DOMAIN channel : channel[i] # DeviceAdd(k)
    /\ \E k \in DOMAIN devices :
         k \notin seeded /\ \E i \in DOMAIN channel : channel[i] = DeviceAdd(k)

\* len + 1 > cap, in the integers
TooLong(len, cap) == ~usize_lt(len, cap)

\* lengths below 2^32 - 1, for which (len + 1) as u32 is len + 1
BelowWrap(len) == len[3] = 0 /\ len[4] = 0 /\ len # U32MaxAsUSize

OutputFraming ==
    LET cap == dev.output_report_byte_length
    IN  /\ (ret.outcome = "DataOverlength") <=> TooLong(ret.len, cap)
        /\ ret.outcome \in {"Ok", "write error"} =>
             /\ ret.sent # << >>
             /\ ret.sent[1].len = USize(cap)
             /\ ret.sent[1].bytes =
                    << ret.report_id >> \o ret.data \o Zeros(cap - 1 - Len(ret.data))

\* C7: set_output_report and write fail with DataOverlength iff
\* len(payload) + 1 > output_report_byte_length, for every payload length;
\* otherwise the buffer handed to the channel is output_report_byte_length
\* long: report_id, the payload in order, zeros.
C7_OutputFraming ==
    ret.op \in {"set_output_report", "write"} => OutputFraming

\* what holds of the code: the same for payloads shorter than 2^32 - 1 bytes
C7_OutputFramingBelowWrap ==
    (ret.op \in {"set_output_report", "write"} /\ BelowWrap(ret.len)) => OutputFraming

InputFraming ==
    LET cap == IF ret.op = "get_feature_report"
               THEN dev.feature_report_byte_length
               ELSE dev.input_report_byte_length
    IN  /\ (ret.outcome = "DataOverlength") <=> TooLong(ret.len, cap)
        /\ ret.outcome = "Ok" =>
             /\ USize(Len(ret.bytes)) = ret.len
             /\ ret.resp[1] = ret.report_id =>
                    ret.bytes = SubSeq(ret.resp, 2, Len(ret.bytes) + 1)

\* C8: get_input_report, get_feature_report, read_continuous and read fail
\* with DataOverlength iff length + 1 > the capability length, for every
\* length; on success the result has exactly `length` bytes, the device's
\* bytes 1..length when its byte 0 equals report_id.
C8_InputFraming ==
    ret.op \in {"get_input_report", "get_feature_report", "read_continuous", "read"}
        => InputFraming

\* what holds of the code: the same for lengths below 2^32 - 1
C8_InputFramingBelowWrap ==
    (/\ ret.op \in {"get_input_report", "get_feature_report", "read_continuous", "read"}
     /\ BelowWrap(ret.len))
        => InputFraming

\* C9: on a loopback device, for a payload with len(payload) + 1 <= the
\* report length, write(report_id, payload) followed by
\* read_continuous(report_id, len(payload)) returns payload.
C9_RoundTrip ==
    (/\ ret.op = "read_continuous" /\ ret.outcome = "Ok"
     /\ ~TooLong(ret.len, dev.input_report_byte_length)
     /\ ret.echo_of # << >>
     /\ ret.echo_of[1].report_id = ret.report_id
     /\ ret.echo_of[1].data.len = ret.len)
        => ret.bytes = ret.echo_of[1].data.head

\* a two-byte payload with two different bytes came back
C9_Witness ==
    /\ ret.op = "read_continuous" /\ ret.outcome = "Ok"
    /\ ret.echo_of # << >>
    /\ ret.echo_of[1].report_id = ret.report_id
    /\ ret.echo_of[1].data = Slice(<< 1, 0 >>)
    /\ ret.len = USize(2)
    /\ ret.bytes = << 1, 0 >>

\* C10: every transport operation other than read_continuous leaves the
\* handle Closed (None) when it returns.
C10_ClosedOnReturn ==
    ret.op \in {"set_output_report", "get_input_report", "get_feature_report",
                "write", "read", "read_flush"}
        => device_handle.handle = << >>

\* C11: after a failed set_output_report, get_input_report,
\* get_feature_report, write or read that had acquired a handle (the OS
\* request failed, or zero bytes were transferred) the handle is Closed.
C11_ClosedOnFailure ==
    (/\ ret.op \in {"set_output_report", "get_input_report",
                    "get_feature_report", "write", "read"}
     /\ ret.outcome \in {"Win32", "write error", "read error"})
        => device_handle.handle = << >>

\* the keys other than the one the last registry call was made on are as
\* they were before it
OtherKeysKept ==
    \A k \in Uuids \ {last.key} :
        /\ (k \in DOMAIN devices) <=> (k \in DOMAIN last.before)
        /\ k \in DOMAIN devices => devices[k] = last.before[k]

\* C12: with add_devices and remove_device called concurrently on disjoint
\* ids no update is lost: the registry holds exactly the ids whose last call
\* was an insert; remove_device on an absent id (a second remove included)
\* returns None and changes nothing.
C12_NoLostUpdate ==
    /\ DOMAIN devices = { k \in Uuids : last_op[k] = "insert" }
    /\ last.op \in {"add_devices", "remove_device"} => OtherKeysKept
    /\ (last.op = "remove_device" /\ last.key \notin DOMAIN last.before) =>
          (last.ret = << >> /\ last.ok /\ devices = last.before)
    /\ (last.op = "remove_device" /\ last.key \in DOMAIN last.before) =>
          last.ret = << << last.key, last.before[last.key] >> >>

\* a second remove of an id, while the other id is registered
C12_Witness ==
    /\ last.op = "remove_device"
    /\ last.prev_op = "remove"
    /\ last.ret = << >>
    /\ \E k \in Uuids \ {last.key} : last_op[k] = "insert" /\ k \in DOMAIN devices

\* C13: add_devices(id, d) returns Ok and leaves the registry mapping id to
\* d whether or not id was present, every other key unchanged.
C13_Upsert ==
    last.op = "add_devices" =>
        /\ last.ok
        /\ last.key \in DOMAIN devices
        /\ << devices[last.key] >> = last.device
        /\ OtherKeysKept

\* an insert over a key that held another descriptor
C13_Witness ==
    /\ last.op = "add_devices"
    /\ last.key \in DOMAIN last.before
    /\ << last.before[last.key] >> # last.device
    /\ \E k \in Uuids \ {last.key} : k \in DOMAIN devices

\* C17: peripheral(id) returns the descriptor stored under id when id is a
\* registry key and fails with NotFound otherwise; the registry is unchanged.
C17_PeripheralOrNotFound ==
    last.op = "peripheral" =>
        /\ devices = last.before
        /\ last.key \in DOMAIN devices =>
              (last.ok /\ last.ret = << devices[last.key] >>)
        /\ last.key \notin DOMAIN devices =>
              (~last.ok /\ last.err = "NotFound" /\ last.ret = << >>)

\* NotFound for an id that was removed, the other id being registered
C17_Witness ==
    /\ last.op = "peripheral"
    /\ ~last.ok /\ last.err = "NotFound"
    /\ last.prev_op = "remove"
    /\ devices # EmptyMap

\* the receipts of all handles: (handle, position in its sequence)
Receipts ==
    { p \in (DOMAIN received) \X (1..MaxEvents) : p[2] <= Len(received[p[1]].got) }

\* C14: the handles returned by events() share one FIFO queue: every emitted
\* event that was received was received exactly once over all handles, in
\* emission order on each handle; the events not yet received, those sent
\* while nobody was receiving included, are still queued, none is lost.
C14_ExactlyOnce ==
    /\ channel = last.emitted
    /\ taken <= Len(channel)
    /\ \A i \in 1..taken :
         Cardinality({ p \in Receipts : received[p[1]].got[p[2]].idx = i }) = 1
    /\ \A p \in Receipts :
         LET g == received[p[1]].got
         IN  /\ g[p[2]].idx \in 1..taken
             /\ g[p[2]].event = last.emitted[g[p[2]].idx]
             /\ p[2] > 1 => g[p[2] - 1].idx < g[p[2]].idx

\* two handles have both received; one of them received an event that was
\* sent before the handle existed; every event sent has been received
C14_Witness ==
    /\ Len(received) = 2
    /\ received[1].got # << >> /\ received[2].got # << >>
    /\ \E j \in DOMAIN received[2].got :
         received[2].got[j].idx <= received[2].since
    /\ Len(channel) >= 3
    /\ taken = Len(channel)

\* C15: when the seeding enumeration fails, start returns the error, inserts
\* nothing into the registry and starts no notification thread.
C15_FailedStart ==
    (last.op = "start" /\ ~last.ok) =>
        (devices = last.before /\ ~thread_handle /\ Emitted = << >>)

\* a start that failed, after which no hotplug pass can have run
C15_Witness ==
    /\ last.op = "start" /\ ~last.ok
    /\ last.prev.op = "start" /\ ~last.prev.ok
    /\ ticks = 0

\* C16: a hotplug pass whose enumeration fails changes nothing in the
\* registry and sends no event, and the notification thread keeps running:
\* the pass after it, when its enumeration succeeds, registers the managed
\* devices of its scan, announces the new ones and removes the ids that are
\* not in its scan.
C16_FailedPass ==
    /\ (last.op = "change" /\ ~last.ok) =>
          (devices = last.before /\ Emitted = << >> /\ thread_handle)
    /\ (last.op = "change" /\ last.ok /\ last.prev = [op |-> "change", ok |-> FALSE]) =>
          /\ ManagedIds(last.scan) \subseteq DOMAIN devices
          /\ \A k \in (DOMAIN devices) \ (DOMAIN last.before) :
                \E i \in DOMAIN Emitted : Emitted[i] = DeviceAdd(k)
          /\ \A k \in DOMAIN last.before :
                (\A i \in DOMAIN last.scan : last.scan[i].id # k) =>
                    /\ k \notin DOMAIN devices
                    /\ \E i \in DOMAIN Emitted :
                         Emitted[i] = DeviceRemove(last.before[k])

\* a pass that added one device and removed another, right after a pass
\* whose enumeration failed
C16_Witness ==
    /\ last.op = "change" /\ last.ok
    /\ last.prev = [op |-> "change", ok |-> FALSE]
    /\ \E i, j \in DOMAIN Emitted :
         Emitted[i].type = "DeviceAdd" /\ Emitted[j].type = "DeviceRemove"

\* C18: a successful write returns the number of bytes WriteFile transferred,
\* which is at least 1; when WriteFile succeeds with zero bytes transferred,
\* write fails.
C18_WriteCount ==
    (ret.op = "write" /\ ret.outcome \in {"Ok", "write error"}) =>
        /\ ret.outcome = "Ok" => (ret.count = ret.transferred /\ ret.count >= 1)
        /\ ret.transferred = 0 => ret.outcome = "write error"

\* a write that transferred part of the report
C18_Witness ==
    /\ ret.op = "write" /\ ret.outcome = "Ok"
    /\ ret.count = 2
    /\ dev.output_report_byte_length = 3

\* C19: with two threads inside operations on one device, no operation
\* passes the OS a handle that another operation or a concurrent
\* close_device has closed, and no OS handle is closed twice.
C19_Serialized == ~race.stale_request /\ ~race.double_close

\* the last pass sent DeviceRemove with the descriptor the caller keeps
HeldRemoved ==
    /\ held # << >>
    /\ last.op = "change"
    /\ held[1].at <= last.sent
    /\ \A i \in (held[1].at + 1)..last.sent :
         channel[i] # DeviceRemove(held[1].device)
    /\ \E i \in DOMAIN Emitted : Emitted[i] = DeviceRemove(held[1].device)

\* C20: when DeviceRemove(descriptor) is sent, the handle of the descriptor
\* it carries is Closed, also when a caller had left it open through
\* read_continuous.
C20_SnapshotClosed == HeldRemoved => device_handle.handle = << >>

\* C21: a successful read_continuous leaves the handle open, and reuses the
\* handle it found open without opening another; close_device then leaves
\* the device Closed; a successful read leaves it Closed and returns the
\* bytes read_continuous returns for the same report.
C21_ReadContinuousKeepsOpen ==
    /\ (ret.op = "read_continuous" /\ ret.outcome = "Ok") =>
          /\ device_handle.handle # << >>
          /\ os_handles = { device_handle.handle[1] }
          /\ ret.had # << >> => device_handle.handle = ret.had
    /\ ret.op = "close_device" => (device_handle = Closed /\ os_handles = {})
    /\ (ret.op = "read" /\ ret.outcome = "Ok") =>
          /\ device_handle = Closed /\ os_handles = {}
          /\ ret.bytes = strip_report_id(ret.resp, ret.report_id, ret.len)

\* a read_continuous that succeeded on the handle an earlier one left open
C21_Witness ==
    /\ ret.op = "read_continuous" /\ ret.outcome = "Ok"
    /\ ret.had # << >>
    /\ device_handle.handle = ret.had
    /\ ret.bytes # << >>

\* C24: read_flush returns Ok also when HidD_FlushQueue fails; it returns an
\* error only when no handle could be acquired.
C24_FlushNonFatal ==
    ret.op = "read_flush" =>
        /\ ret.outcome \in {"Ok", "OpenError"}
        /\ ret.outcome = "OpenError" =>
              (ret.had = << >> /\ device_handle.handle = << >>)
        /\ device_handle.handle # << >> => ret.outcome = "Ok"

\* a read_flush whose flush request failed
C24_Witness ==
    /\ ret.op = "read_flush"
    /\ ~ret.flushed
    /\ ret.outcome = "Ok"

\* C25: a successful write of a payload that fills the report
\* (len(payload) + 1 = output_report_byte_length) returns len(payload).
C25_WriteReturnsPayloadLen ==
    (/\ ret.op = "write" /\ ret.outcome = "Ok"
     /\ ret.len = USize(Len(ret.data))
     /\ Len(ret.data) + 1 = dev.output_report_byte_length)
        => ret.count = Len(ret.data)

\* C26: whenever the handle field holds Some(h), h is an OS handle that was
\* opened and not closed; dropping a clone of the descriptor closes no handle
\* the field still records.
C26_HandleValid ==
    device_handle.handle # << >> => device_handle.handle[1] \in os_handles

\* C27: when two operations both find the handle Closed, no opened handle is
\* overwritten in the handle field without having been closed, and no OS
\* handle stays open once the operations have returned and the field is None.
C27_NoLeakedHandle ==
    /\ ~race.overwritten
    /\ (device_handle.handle = << >> /\ \A t \in Threads : threads[t].pc = "idle")
          => os_handles = {}

\* C23: a device whose descriptor retrieval fails during a scan (open,
\* capabilities, attributes or container id) is skipped: the scan returns
\* Ok with every other device, in enumeration order.
C23_FailureSkipsDevice ==
    last.op = "all_hid_device" =>
        /\ last.result.ok
        /\ LET good == SelectSeq(last.items, LAMBDA p : p.container /\ p.info)
           IN  last.result.list = [i \in DOMAIN good |-> good[i].dev]

\* C22: devices() and device_keys() return the registry's key set of one
\* single instant of the call, also while a hotplug pass runs.
C22_PointInTime ==
    last.op \in {"devices", "device_keys"} => last.result \in last.instants

\* C28: a pass removes an entry and emits DeviceRemove only for an id no
\* plugged device has; a plugged device that fails to answer one scan stays.
C28_RemoveOnlyUnplugged ==
    (last.op = "change" /\ "plugged" \in DOMAIN last) =>
        /\ \A id \in (DOMAIN last.before) \ (DOMAIN devices) :
              id \notin PluggedIds(last.plugged)
        /\ \A i \in (last.sent + 1)..Len(channel) :
              channel[i].type = "DeviceRemove" =>
                  channel[i].device.id \notin PluggedIds(last.plugged)

\* C29: once the topology has stopped changing, the registry's key set
\* becomes the set of ids of the plugged managed-page devices and stays so.
C29_Converges ==
    <>[](DOMAIN devices =
            PluggedIds({ d \in plugged : d.usage_page = ManagedPage }))

====
